---- MODULE Spec2Model ----
(***************************************************************************)
(* Model of src/app.py: the enhancement worker (process, enhance_folder,   *)
(* enhance_image, download_realesrgan, enhance_with_opencv, show_results)  *)
(* running on a background thread, the Tk handlers threaded_start and      *)
(* stop_process running on the main thread, and the external executable   *)
(* as an environment process.  The worker's program counter pc names the   *)
(* next source line it executes; every read of the shared globals          *)
(* stop_requested and current_process is a step of its own, so that the    *)
(* main thread can interleave between any two of them.                     *)
(*                                                                         *)
(* Spec is that system; FairSpec adds the scheduling of the threads.       *)
(* DataSpec follows the file names, paths and image sizes one job          *)
(* computes (lines 101-106, 161-163, 202-216, 355), for every listing,     *)
(* scale and image size within the bounds.                                 *)
(***************************************************************************)
EXTENDS Naturals, FiniteSets, Sequences

\* ------------------------------------------------------------------ bounds
\* Largest number of supported files in a batch listing.
MaxFiles == 2
\* Largest number of 1024-byte chunks of the archive before end of stream.
MaxChunks == 1
\* Largest number of stdout lines of the executable buffered in the pipe.
MaxLines == 1
\* Largest number of worker threads alive at the same time that the Start
\* button is allowed to bring about.
MaxWorkers == 2
\* Largest number of entries of the input directory.
MaxListing == 3
\* Largest width and height, in pixels, of an input image.
MaxDim == 2

VARIABLES
  stop_requested,   \* global stop_requested (line 31)
  current_process,  \* global current_process (line 30): "None" or "proc"
  procState,        \* the external executable: "none", "running", "exited"
  returncode,       \* its exit code once exited: 0, or 1 for any non-zero
  linesPending,     \* stdout lines written and not yet read by readline
  pc,               \* next line of the worker that runs process(); "idle"
  finishing,        \* workers inside reset_ui after line 284 (Start shown)
  uiPc,             \* main thread: "idle" or inside stop_process
  startVisible,     \* start_btn_canvas is packed
  stopVisible,      \* stop_btn_canvas is packed
  status,           \* text of status_label
  dialog,           \* last messagebox of the run: "none","success","error"
  batch,            \* batch_var.get() as read by process()
  numFiles,         \* length of the files list (1 in single-file mode)
  idx,              \* position in the listing of the file being processed
  isWindows,        \* platform.system() == "Windows"
  dirState,         \* directory "realesrgan": "absent","partial","full"
  zipState,         \* realesrgan-download.zip: "absent","partial","complete"
  chunksRead,       \* chunks of the archive written so far
  cvInstalled,      \* import cv2 succeeds
  outDirExists,     \* the output folder named by the job exists; every
                    \* job names a folder that does not exist yet
  outFile,          \* the file at output_path of the file being
                    \* processed: "absent", "partial" or "complete"
  eiResult,         \* value returned by the last enhance_image call
  cvResult,         \* enhance_with_opencv for this file: "none", "ok",
                    \* "fail" (returned False), "raised" (left by exception)
  cause,            \* why enhance_image failed for this file; "raised" when
                    \* it was left by an exception instead of a return
  runnerInvoked,    \* files for which enhance_image was called in this run
  launched,         \* Popen started the executable for this file
  fallbackInvoked,  \* enhance_with_opencv was called for this file
  reported,         \* show_results was called for this file
  stopPc,           \* pc of the worker when stop_requested first became true
  stopIdx,          \* idx at that moment
  launchedUnderStop, \* stop_requested was already true at some Popen call
  fnPc,             \* position in the walk through the naming and sizing
                    \* computations of one job; "idle" while a run is modelled
  fnBatch,          \* batch_var.get()
  dirListing,       \* os.listdir(input_folder); in single-file mode the one
                    \* file name the user entered
  files,            \* the list files of enhance_folder (line 203)
  fileIdx,          \* position in files of the file in hand, 0 before any
  scale,            \* int(scale_var.get()): 2 or 4
  imgSize,          \* <<width, height>> of the input image
  input_path,       \* argument input_path of the three components
  output_path,      \* argument output_path as the caller computed it
  cmdOutput,        \* the argument after "-o" in cmd (line 106)
  cmdScale,         \* the argument after "-s" in cmd (line 106)
  cvWritten,        \* path given to cv2.imwrite for this file, <<>> if none
  cvSize,           \* <<width, height>> of the image given to cv2.imwrite
  srRead,           \* path opened by show_results for this file
  enhanced_file     \* path see_result looked up and opened, <<>> if none

procVars  == <<current_process, procState, returncode, linesPending>>
uiVars    == <<uiPc, startVisible, stopVisible, status, dialog>>
jobVars   == <<batch, numFiles, idx>>
dlVars    == <<dirState, zipState, chunksRead>>
fsVars    == <<cvInstalled, outDirExists, outFile>>
callVars  == <<eiResult, cvResult, cause>>
traceVars == <<runnerInvoked, launched, fallbackInvoked, reported,
               launchedUnderStop>>
stopVars  == <<stop_requested, stopPc, stopIdx>>

fnVars    == <<fnPc, fnBatch, dirListing, files, fileIdx, scale, imgSize,
               input_path, output_path, cmdOutput, cmdScale, cvWritten,
               cvSize, srRead, enhanced_file>>

runVars == <<procVars, uiVars, jobVars, dlVars, fsVars, callVars, traceVars,
             stopVars, pc, finishing, isWindows>>

vars == <<runVars, fnVars>>

Files == 1..MaxFiles

InitRun ==
  /\ stop_requested = FALSE
  /\ current_process = "None"
  /\ procState = "none"
  /\ returncode = 0
  /\ linesPending = 0
  /\ pc = "idle"
  /\ finishing = 0
  /\ uiPc = "idle"
  /\ startVisible = TRUE
  /\ stopVisible = FALSE
  /\ status = "ready"
  /\ dialog = "none"
  /\ batch = FALSE
  /\ numFiles = 1
  /\ idx = 1
  /\ isWindows \in BOOLEAN
  /\ dirState \in {"absent", "partial", "full"}
  /\ zipState = "absent"
  /\ chunksRead = 0
  /\ cvInstalled \in BOOLEAN
  /\ outDirExists = FALSE
  /\ outFile = "absent"
  /\ eiResult = FALSE
  /\ cvResult = "none"
  /\ cause = "none"
  /\ runnerInvoked = {}
  /\ launched = FALSE
  /\ fallbackInvoked = FALSE
  /\ reported = FALSE
  /\ stopPc = "none"
  /\ stopIdx = 1
  /\ launchedUnderStop = FALSE

\* No naming or sizing computation is being followed.
FnIdle ==
  /\ fnPc = "idle"
  /\ fnBatch = FALSE
  /\ dirListing = <<>>
  /\ files = <<>>
  /\ fileIdx = 0
  /\ scale = 4
  /\ imgSize = <<1, 1>>
  /\ input_path = <<>>
  /\ output_path = <<>>
  /\ cmdOutput = <<>>
  /\ cmdScale = 4
  /\ cvWritten = <<>>
  /\ cvSize = <<0, 0>>
  /\ srRead = <<>>
  /\ enhanced_file = <<>>

Init == InitRun /\ FnIdle

\* ------------------------------------------------- the external executable
\* Popen.terminate(): a running process exits with a non-zero code; a
\* process that has already exited keeps its code.
Terminated(state) == IF state = "running" THEN "exited" ELSE state

TerminatedCode(state, code) == IF state = "running" THEN 1 ELSE code

\* The executable prints a line on its stdout pipe.
ProcEmitLine ==
  /\ procState = "running"
  /\ linesPending < MaxLines
  /\ linesPending' = linesPending + 1
  /\ UNCHANGED <<current_process, procState, returncode, uiVars, jobVars,
                 dlVars, fsVars, callVars, traceVars, stopVars, pc,
                 finishing, isWindows, fnVars>>

\* The executable writes the file named by -o: first a part, then all.
ProcWrite ==
  /\ procState = "running"
  /\ outFile # "complete"
  /\ outFile' = IF outFile = "absent" THEN "partial" ELSE "complete"
  /\ UNCHANGED <<procVars, uiVars, jobVars, dlVars, cvInstalled,
                 outDirExists, callVars, traceVars, stopVars, pc, finishing,
                 isWindows, fnVars>>

\* The executable exits by itself: with code 0 once the output is written,
\* with a non-zero code at any time.
ProcExit ==
  /\ procState = "running"
  /\ \E rc \in {0, 1} :
       /\ rc = 0 => outFile = "complete"
       /\ returncode' = rc
  /\ procState' = "exited"
  /\ UNCHANGED <<current_process, linesPending, uiVars, jobVars, dlVars,
                 fsVars, callVars, traceVars, stopVars, pc, finishing,
                 isWindows, fnVars>>

\* The record kept of one run (which steps were taken for which file, and
\* where the worker was when the flag was set) starts empty with every
\* run and is emptied when the run's worker has left process()'s body.
RunRecordCleared ==
  /\ batch' = FALSE
  /\ numFiles' = 1
  /\ idx' = 1
  /\ outDirExists' = FALSE
  /\ outFile' = "absent"
  /\ eiResult' = FALSE
  /\ cvResult' = "none"
  /\ cause' = "none"
  /\ runnerInvoked' = {}
  /\ launched' = FALSE
  /\ fallbackInvoked' = FALSE
  /\ reported' = FALSE
  /\ launchedUnderStop' = FALSE
  /\ stopPc' = "none"
  /\ stopIdx' = 1

\* ------------------------------------------------------ main (Tk) thread
\* threaded_start, bound to the Start button: clears the flag, validates
\* the entries (filled or not is the user's input), show_loading(True),
\* starts the worker thread.
threaded_start ==
  /\ startVisible
  /\ uiPc = "idle"
  /\ finishing < MaxWorkers
  /\ stop_requested' = FALSE
  /\ \E filled \in BOOLEAN :
       IF ~filled
         THEN /\ dialog' = "error"
              /\ UNCHANGED <<uiPc, startVisible, stopVisible, status, pc,
                             jobVars, outDirExists, outFile, callVars,
                             traceVars, stopPc, stopIdx>>
         ELSE /\ startVisible' = FALSE
              /\ stopVisible' = TRUE
              /\ status' = "processing"
              /\ dialog' = "none"
              /\ pc' = "p_begin"
              /\ RunRecordCleared
              /\ UNCHANGED uiPc
  /\ UNCHANGED <<procVars, dlVars, cvInstalled, finishing, isWindows,
                 fnVars>>

\* stop_process, lines 273-274: the flag is set.
stop_process_set ==
  /\ stopVisible
  /\ uiPc = "idle"
  /\ stop_requested' = TRUE
  /\ stopPc' = IF stop_requested THEN stopPc ELSE pc
  /\ stopIdx' = IF stop_requested THEN stopIdx ELSE idx
  /\ uiPc' = "stop_terminate"
  /\ UNCHANGED <<procVars, startVisible, stopVisible, status, dialog,
                 jobVars, dlVars, fsVars, callVars, traceVars,
                 pc, finishing, isWindows, fnVars>>

\* stop_process, lines 275-280: the handle is read and, when set, the
\* process terminated; the status label is written.
stop_process_terminate ==
  /\ uiPc = "stop_terminate"
  /\ IF current_process # "None"
       THEN /\ procState' = Terminated(procState)
            /\ returncode' = TerminatedCode(procState, returncode)
       ELSE UNCHANGED <<procState, returncode>>
  /\ status' = "stopped"
  /\ uiPc' = "idle"
  /\ UNCHANGED <<current_process, linesPending, startVisible, stopVisible,
                 dialog, jobVars, dlVars, fsVars, callVars,
                 traceVars, stopVars, pc, finishing, isWindows, fnVars>>

\* ------------------------------------------- worker: process(), lines 339-374
\* Lines 342-348: the entries are read; a missing input path is reported
\* and the worker returns through its finally clause.
process_begin ==
  /\ pc = "p_begin"
  /\ uiPc = "idle"
  /\ \E exists \in BOOLEAN, b \in BOOLEAN, n \in 0..MaxFiles :
       /\ b \/ n = 1
       /\ IF exists
            THEN /\ batch' = b
                 /\ numFiles' = n
                 /\ pc' = "p_mkdir"
                 /\ UNCHANGED dialog
            ELSE /\ dialog' = "error"
                 /\ pc' = "p_reset1"
                 /\ UNCHANGED <<batch, numFiles>>
  /\ UNCHANGED <<procVars, uiPc, startVisible, stopVisible, status,
                 idx, dlVars, fsVars, callVars, traceVars,
                 stopVars, finishing, isWindows, fnVars>>

\* Lines 350-356: os.makedirs(out), then enhance_folder or, in single-file
\* mode, the call of enhance_image.  An OSError of makedirs is raised into
\* process()'s except clause.
process_makedirs ==
  /\ pc = "p_mkdir"
  /\ \E ok \in BOOLEAN :
       IF ok
         THEN /\ outDirExists' = TRUE
              /\ IF batch
                   THEN /\ pc' = "f_list"
                        /\ UNCHANGED runnerInvoked
                   ELSE /\ pc' = "ei_platform"
                        /\ runnerInvoked' = runnerInvoked \cup {idx}
         ELSE /\ pc' = "p_except"
              /\ UNCHANGED <<outDirExists, runnerInvoked>>
  /\ UNCHANGED <<procVars, uiVars, jobVars, dlVars, cvInstalled, outFile,
                 callVars, launched, fallbackInvoked, reported,
                 launchedUnderStop, stopVars, finishing, isWindows, fnVars>>

\* enhance_folder, lines 202-210: the listing; no supported file: return.
folder_list ==
  /\ pc = "f_list"
  /\ pc' = IF numFiles = 0 THEN "p_final" ELSE "f_loop"
  /\ UNCHANGED <<procVars, uiVars, jobVars, dlVars, fsVars, callVars,
                 traceVars, stopVars, finishing, isWindows, fnVars>>

\* enhance_folder, lines 212-214 without the test of stop_requested.
folder_loop_no_break ==
  /\ pc = "f_loop"
  /\ IF idx > numFiles
       THEN /\ pc' = "p_final"
            /\ UNCHANGED <<traceVars, callVars, outFile>>
       ELSE /\ pc' = "ei_platform"
            /\ runnerInvoked' = runnerInvoked \cup {idx}
            /\ eiResult' = FALSE
            /\ cvResult' = "none"
            /\ cause' = "none"
            /\ launched' = FALSE
            /\ fallbackInvoked' = FALSE
            /\ reported' = FALSE
            /\ outFile' = "absent"
            /\ UNCHANGED launchedUnderStop
  /\ UNCHANGED <<procVars, uiVars, jobVars, dlVars, cvInstalled,
                 outDirExists, stopVars, finishing, isWindows, fnVars>>

\* enhance_folder, lines 212-219: the loop head; break when the flag is
\* set, else the call of enhance_image for the next file.
folder_loop ==
  /\ pc = "f_loop"
  /\ IF idx > numFiles \/ stop_requested
       THEN /\ pc' = "p_final"
            /\ UNCHANGED <<traceVars, callVars, outFile>>
       ELSE /\ pc' = "ei_platform"
            /\ runnerInvoked' = runnerInvoked \cup {idx}
            /\ eiResult' = FALSE
            /\ cvResult' = "none"
            /\ cause' = "none"
            /\ launched' = FALSE
            /\ fallbackInvoked' = FALSE
            /\ reported' = FALSE
            /\ outFile' = "absent"
            /\ UNCHANGED launchedUnderStop
  /\ UNCHANGED <<procVars, uiVars, jobVars, dlVars, cvInstalled,
                 outDirExists, stopVars, finishing, isWindows, fnVars>>

\* Lines 220-221 / 357-358 without the test of stop_requested.
caller_check_fallback_no_test ==
  /\ pc = "c_stop1"
  /\ pc' = "cv_stop1"
  /\ fallbackInvoked' = TRUE
  /\ UNCHANGED <<procVars, uiVars, jobVars, dlVars, fsVars, callVars,
                 runnerInvoked, launched, reported, launchedUnderStop,
                 stopVars, finishing, isWindows, fnVars>>

\* Lines 220-221 (batch) and 357-358 (single file): reached when
\* enhance_image returned False; the fallback is called unless the flag
\* is set.
caller_check_fallback ==
  /\ pc = "c_stop1"
  /\ IF ~stop_requested
       THEN /\ pc' = "cv_stop1"
            /\ fallbackInvoked' = TRUE
       ELSE /\ pc' = "c_stop2"
            /\ UNCHANGED fallbackInvoked
  /\ UNCHANGED <<procVars, uiVars, jobVars, dlVars, fsVars, callVars,
                 runnerInvoked, launched, reported, launchedUnderStop,
                 stopVars, finishing, isWindows, fnVars>>

\* Where the caller goes after the last statement for a file: the next
\* iteration of enhance_folder's loop, or line 362 of process().
AfterFilePc == IF batch THEN "f_loop" ELSE "p_final"

AfterFileIdx == IF batch THEN idx + 1 ELSE idx

\* Lines 222 / 359 without the test of stop_requested.
caller_check_report_no_test ==
  /\ pc = "c_stop2"
  /\ pc' = "sr"
  /\ UNCHANGED <<procVars, uiVars, jobVars, dlVars, fsVars,
                 callVars, traceVars, stopVars, finishing, isWindows, fnVars>>

\* Lines 222 / 359: show_results is called unless the flag is set.
caller_check_report ==
  /\ pc = "c_stop2"
  /\ IF ~stop_requested
       THEN /\ pc' = "sr"
            /\ UNCHANGED idx
       ELSE /\ pc' = AfterFilePc
            /\ idx' = AfterFileIdx
  /\ UNCHANGED <<procVars, uiVars, batch, numFiles, dlVars, fsVars,
                 callVars, traceVars, stopVars, finishing, isWindows, fnVars>>

\* show_results, lines 183-198: every error is caught inside.
show_results ==
  /\ pc = "sr"
  /\ reported' = TRUE
  /\ pc' = AfterFilePc
  /\ idx' = AfterFileIdx
  /\ UNCHANGED <<procVars, uiVars, batch, numFiles, dlVars, fsVars,
                 callVars, runnerInvoked, launched, fallbackInvoked,
                 launchedUnderStop, stopVars, finishing, isWindows, fnVars>>

\* Line 362: the flag decides between the success and the stopped ending.
process_final ==
  /\ pc = "p_final"
  /\ pc' = IF ~stop_requested THEN "p_success" ELSE "p_stopped"
  /\ UNCHANGED <<procVars, uiVars, jobVars, dlVars, fsVars, callVars,
                 traceVars, stopVars, finishing, isWindows, fnVars>>

\* Lines 363-364: success status and the Success message box.
process_success ==
  /\ pc = "p_success"
  /\ uiPc = "idle"
  /\ status' = "success"
  /\ dialog' = "success"
  /\ pc' = "p_reset1"
  /\ UNCHANGED <<procVars, uiPc, startVisible, stopVisible, jobVars, dlVars, fsVars, callVars, traceVars, stopVars,
                 finishing, isWindows, fnVars>>

\* Line 366: the stopped-by-user status.
process_stopped ==
  /\ pc = "p_stopped"
  /\ uiPc = "idle"
  /\ status' = "stopped"
  /\ pc' = "p_reset1"
  /\ UNCHANGED <<procVars, uiPc, startVisible, stopVisible, dialog,
                 jobVars, dlVars, fsVars, callVars, traceVars,
                 stopVars, finishing, isWindows, fnVars>>

\* Lines 368-372: an exception that reached process(); the error box and
\* the failed status unless the flag is set.
process_except ==
  /\ pc = "p_except"
  /\ uiPc = "idle"
  /\ IF ~stop_requested
       THEN /\ dialog' = "error"
            /\ status' = "failed"
       ELSE UNCHANGED <<dialog, status>>
  /\ pc' = "p_reset1"
  /\ UNCHANGED <<procVars, uiPc, startVisible, stopVisible, jobVars, dlVars, fsVars, callVars, traceVars, stopVars,
                 finishing, isWindows, fnVars>>

\* Lines 373-374, reset_ui line 284: the Start button is packed again.
\* The worker is now past everything but reset_ui's last three lines.
reset_ui_start ==
  /\ pc = "p_reset1"
  /\ uiPc = "idle"
  /\ startVisible' = TRUE
  /\ pc' = "idle"
  /\ finishing' = finishing + 1
  /\ RunRecordCleared
  /\ UNCHANGED <<procVars, uiPc, stopVisible, status, dialog, dlVars,
                 cvInstalled, stop_requested, isWindows, fnVars>>

\* reset_ui lines 285-287: the Stop button and the progress bar are
\* removed, and the worker thread ends.
reset_ui_rest ==
  /\ finishing > 0
  /\ uiPc = "idle"
  /\ stopVisible' = FALSE
  /\ finishing' = finishing - 1
  /\ UNCHANGED <<procVars, uiPc, startVisible, status, dialog, jobVars, dlVars, fsVars, callVars, traceVars, stopVars,
                 pc, isWindows, fnVars>>

\* ------------------------------------------ worker: enhance_image, 73-148
\* Line 76: the platform test.
enhance_image_platform ==
  /\ pc = "ei_platform"
  /\ IF isWindows
       THEN /\ pc' = "dl_exists"
            /\ UNCHANGED callVars
       ELSE /\ pc' = "c_stop1"
            /\ eiResult' = FALSE
            /\ cause' = "platform"
            /\ UNCHANGED cvResult
  /\ UNCHANGED <<procVars, uiVars, jobVars, dlVars, fsVars, traceVars,
                 stopVars, finishing, isWindows, fnVars>>

\* Line 55 with the test left out: the archive is fetched on every call.
download_realesrgan_always_downloads ==
  /\ pc = "dl_exists"
  /\ pc' = "dl_open"
  /\ UNCHANGED <<procVars, uiVars, jobVars, dlVars, fsVars, callVars,
                 traceVars, stopVars, finishing, isWindows, fnVars>>

\* download_realesrgan, line 55: an existing directory counts as
\* provisioned, whatever it holds.
download_realesrgan_exists ==
  /\ pc = "dl_exists"
  /\ pc' = IF dirState # "absent" THEN "ei_stop" ELSE "dl_open"
  /\ UNCHANGED <<procVars, uiVars, jobVars, dlVars, fsVars, callVars,
                 traceVars, stopVars, finishing, isWindows, fnVars>>

\* download_with_progress, lines 34-36: urlopen and open(output_path).
\* An error is caught at line 67; enhance_image returns False at line 81.
download_open ==
  /\ pc = "dl_open"
  /\ \E ok \in BOOLEAN :
       IF ok
         THEN /\ zipState' = "partial"
              /\ chunksRead' = 0
              /\ pc' = "dl_loop"
              /\ UNCHANGED callVars
         ELSE /\ pc' = "c_stop1"
              /\ eiResult' = FALSE
              /\ cause' = "provision"
              /\ UNCHANGED <<zipState, chunksRead, cvResult>>
  /\ UNCHANGED <<procVars, uiVars, jobVars, dirState, fsVars, traceVars,
                 stopVars, finishing, isWindows, fnVars>>

\* download_with_progress, lines 38-41: the flag is polled before every
\* chunk; when set the partial file is removed and False returned.
download_loop ==
  /\ pc = "dl_loop"
  /\ IF stop_requested
       THEN /\ zipState' = "absent"
            /\ pc' = "c_stop1"
            /\ eiResult' = FALSE
            /\ cause' = "cancel"
            /\ UNCHANGED cvResult
       ELSE /\ pc' = "dl_read"
            /\ UNCHANGED <<zipState, callVars>>
  /\ UNCHANGED <<procVars, uiVars, jobVars, dirState, chunksRead, fsVars,
                 traceVars, stopVars, finishing, isWindows, fnVars>>

\* download_with_progress, lines 42-47: a chunk, the end of the stream,
\* or a network error (caught at line 67).
download_read ==
  /\ pc = "dl_read"
  /\ \E got \in {"chunk", "eof", "error"} :
       /\ got = "chunk" => chunksRead < MaxChunks
       /\ chunksRead' = IF got = "chunk" THEN chunksRead + 1 ELSE chunksRead
       /\ zipState' = IF got = "eof" THEN "complete" ELSE zipState
       /\ pc' = IF got = "chunk" THEN "dl_loop"
                ELSE IF got = "eof" THEN "dl_post" ELSE "c_stop1"
       /\ eiResult' = IF got = "error" THEN FALSE ELSE eiResult
       /\ cause' = IF got = "error" THEN "provision" ELSE cause
  /\ UNCHANGED <<procVars, uiVars, jobVars, dirState, fsVars, cvResult,
                 traceVars, stopVars, finishing, isWindows, fnVars>>

\* download_realesrgan, lines 60-61: the flag is tested after the download.
download_realesrgan_post ==
  /\ pc = "dl_post"
  /\ IF stop_requested
       THEN /\ pc' = "c_stop1"
            /\ eiResult' = FALSE
            /\ cause' = "cancel"
            /\ UNCHANGED cvResult
       ELSE /\ pc' = "dl_extract"
            /\ UNCHANGED callVars
  /\ UNCHANGED <<procVars, uiVars, jobVars, dlVars, fsVars, traceVars,
                 stopVars, finishing, isWindows, fnVars>>

\* download_realesrgan, lines 63-65: extractall; an error (caught at line
\* 67) leaves no directory or a partly extracted one.
download_realesrgan_extract ==
  /\ pc = "dl_extract"
  /\ \E d \in {"absent", "partial", "full"} :
       /\ dirState' = d
       /\ IF d = "full"
            THEN /\ pc' = "dl_remove"
                 /\ UNCHANGED callVars
            ELSE /\ pc' = "c_stop1"
                 /\ eiResult' = FALSE
                 /\ cause' = "provision"
                 /\ UNCHANGED cvResult
  /\ UNCHANGED <<procVars, uiVars, jobVars, zipState, chunksRead, fsVars,
                 traceVars, stopVars, finishing, isWindows, fnVars>>

\* download_realesrgan, line 66: the archive is removed.
download_realesrgan_remove ==
  /\ pc = "dl_remove"
  /\ zipState' = "absent"
  /\ pc' = "ei_stop"
  /\ UNCHANGED <<procVars, uiVars, jobVars, dirState, chunksRead, fsVars,
                 callVars, traceVars, stopVars, finishing, isWindows, fnVars>>

\* Lines 83-84: the one test of the flag that precedes the launch.
enhance_image_stop ==
  /\ pc = "ei_stop"
  /\ IF stop_requested
       THEN /\ pc' = "c_stop1"
            /\ eiResult' = FALSE
            /\ cause' = "cancel"
            /\ UNCHANGED cvResult
       ELSE /\ pc' = "ei_walk"
            /\ UNCHANGED callVars
  /\ UNCHANGED <<procVars, uiVars, jobVars, dlVars, fsVars, traceVars,
                 stopVars, finishing, isWindows, fnVars>>

\* Lines 86-97: the search for the executable under "realesrgan"; a fully
\* extracted archive holds it, a partly extracted one may not.
enhance_image_walk ==
  /\ pc = "ei_walk"
  /\ \E found \in BOOLEAN :
       /\ dirState = "full" => found
       /\ IF found
            THEN /\ pc' = "ei_mkdir"
                 /\ UNCHANGED callVars
            ELSE /\ pc' = "c_stop1"
                 /\ eiResult' = FALSE
                 /\ cause' = "noexe"
                 /\ UNCHANGED cvResult
  /\ UNCHANGED <<procVars, uiVars, jobVars, dlVars, fsVars, traceVars,
                 stopVars, finishing, isWindows, fnVars>>

\* Lines 99-106: os.makedirs and the output name, outside the try block:
\* an OSError leaves enhance_image as an exception.
enhance_image_makedirs ==
  /\ pc = "ei_mkdir"
  /\ \E ok \in BOOLEAN :
       /\ pc' = IF ok THEN "ei_getsize" ELSE "p_except"
       /\ outDirExists' = IF ok THEN TRUE ELSE outDirExists
       /\ cause' = IF ok THEN cause ELSE "raised"
  /\ UNCHANGED <<procVars, uiVars, jobVars, dlVars, cvInstalled, outFile,
                 eiResult, cvResult, traceVars, stopVars, finishing,
                 isWindows, fnVars>>

\* Lines 108-114: inside the try block; an error of os.path.getsize is
\* caught at line 143.
enhance_image_getsize ==
  /\ pc = "ei_getsize"
  /\ \E ok \in BOOLEAN :
       IF ok
         THEN /\ pc' = "ei_popen"
              /\ UNCHANGED callVars
         ELSE /\ pc' = "ei_finally"
              /\ eiResult' = FALSE
              /\ cause' = "exception"
              /\ UNCHANGED cvResult
  /\ UNCHANGED <<procVars, uiVars, jobVars, dlVars, fsVars, traceVars,
                 stopVars, finishing, isWindows, fnVars>>

\* Line 115, the call Popen(cmd, ...): the executable starts, or Popen
\* raises (caught at line 143).
enhance_image_popen ==
  /\ pc = "ei_popen"
  /\ \E ok \in BOOLEAN :
       IF ok
         THEN /\ procState' = "running"
              /\ returncode' = 0
              /\ linesPending' = 0
              /\ launched' = TRUE
              /\ launchedUnderStop' = (launchedUnderStop \/ stop_requested)
              /\ pc' = "ei_assign"
              /\ UNCHANGED callVars
         ELSE /\ pc' = "ei_finally"
              /\ eiResult' = FALSE
              /\ cause' = "exception"
              /\ UNCHANGED <<procState, returncode, linesPending, launched,
                             launchedUnderStop, cvResult>>
  /\ UNCHANGED <<current_process, uiVars, jobVars, dlVars, fsVars,
                 runnerInvoked, fallbackInvoked, reported, stopVars,
                 finishing, isWindows, fnVars>>

\* Line 115, the assignment: the handle is stored in the global.
enhance_image_assign ==
  /\ pc = "ei_assign"
  /\ current_process' = "proc"
  /\ pc' = "ei_loop"
  /\ UNCHANGED <<procState, returncode, linesPending, uiVars, jobVars,
                 dlVars, fsVars, callVars, traceVars, stopVars, finishing,
                 isWindows, fnVars>>

\* Line 117: the poll of the flag at the head of the loop.
enhance_image_loop ==
  /\ pc = "ei_loop"
  /\ pc' = IF stop_requested THEN "ei_term" ELSE "ei_readline"
  /\ UNCHANGED <<procVars, uiVars, jobVars, dlVars, fsVars, callVars,
                 traceVars, stopVars, finishing, isWindows, fnVars>>

\* Lines 118-119: terminate and return False (through finally).
enhance_image_terminate ==
  /\ pc = "ei_term"
  /\ procState' = Terminated(procState)
  /\ returncode' = TerminatedCode(procState, returncode)
  /\ eiResult' = FALSE
  /\ cause' = "cancel"
  /\ pc' = "ei_finally"
  /\ UNCHANGED <<current_process, linesPending, uiVars, jobVars, dlVars,
                 fsVars, cvResult, traceVars, stopVars, finishing,
                 isWindows, fnVars>>

\* Lines 121-128: readline blocks until a line is there or the pipe is
\* closed by the exit of the process.
enhance_image_readline ==
  /\ pc = "ei_readline"
  /\ linesPending > 0 \/ procState = "exited"
  /\ linesPending' = IF linesPending > 0 THEN linesPending - 1 ELSE 0
  /\ pc' = "ei_poll"
  /\ UNCHANGED <<current_process, procState, returncode, uiVars, jobVars,
                 dlVars, fsVars, callVars, traceVars, stopVars, finishing,
                 isWindows, fnVars>>

\* Lines 129-132: poll(); the loop ends when the process has exited.
enhance_image_poll ==
  /\ pc = "ei_poll"
  /\ pc' = IF procState = "exited" THEN "ei_rc" ELSE "ei_loop"
  /\ UNCHANGED <<procVars, uiVars, jobVars, dlVars, fsVars, callVars,
                 traceVars, stopVars, finishing, isWindows, fnVars>>

\* Line 134, left operand: the exit code.
enhance_image_returncode ==
  /\ pc = "ei_rc"
  /\ pc' = IF returncode = 0 THEN "ei_stop2" ELSE "ei_stderr"
  /\ UNCHANGED <<procVars, uiVars, jobVars, dlVars, fsVars, callVars,
                 traceVars, stopVars, finishing, isWindows, fnVars>>

\* Line 134 with the right operand left out: exit code 0 alone is success.
enhance_image_success_ignoring_stop ==
  /\ pc = "ei_stop2"
  /\ pc' = "ei_finally"
  /\ eiResult' = TRUE
  /\ cause' = "none"
  /\ UNCHANGED <<procVars, uiVars, jobVars, dlVars, fsVars, cvResult,
                 traceVars, stopVars, finishing, isWindows, fnVars>>

\* Line 134, right operand, and lines 135-136: with exit code 0 the flag
\* decides between return True and the failure branch.
enhance_image_success ==
  /\ pc = "ei_stop2"
  /\ IF ~stop_requested
       THEN /\ pc' = "ei_finally"
            /\ eiResult' = TRUE
            /\ cause' = "none"
            /\ UNCHANGED cvResult
       ELSE /\ pc' = "ei_stderr"
            /\ UNCHANGED callVars
  /\ UNCHANGED <<procVars, uiVars, jobVars, dlVars, fsVars, traceVars,
                 stopVars, finishing, isWindows, fnVars>>

\* Lines 138-142: stderr is read; the error is printed unless the flag is
\* set; return False.
enhance_image_failure ==
  /\ pc = "ei_stderr"
  /\ eiResult' = FALSE
  /\ cause' = IF stop_requested THEN "cancel" ELSE "exit"
  /\ pc' = "ei_finally"
  /\ UNCHANGED <<procVars, uiVars, jobVars, dlVars, fsVars, cvResult,
                 traceVars, stopVars, finishing, isWindows, fnVars>>

\* Where enhance_image's caller continues: line 220/357 after False,
\* line 222/359 after True.
ReturnPc(result) == IF result THEN "c_stop2" ELSE "c_stop1"

\* Lines 147-148 with the assignment left out: the handle is kept.
enhance_image_finally_keeps_handle ==
  /\ pc = "ei_finally"
  /\ pc' = ReturnPc(eiResult)
  /\ UNCHANGED <<procVars, uiVars, jobVars, dlVars, fsVars, callVars,
                 traceVars, stopVars, finishing, isWindows, fnVars>>

\* Lines 147-148: finally clears the handle, then the value is returned.
enhance_image_finally ==
  /\ pc = "ei_finally"
  /\ current_process' = "None"
  /\ pc' = ReturnPc(eiResult)
  /\ UNCHANGED <<procState, returncode, linesPending, uiVars, jobVars,
                 dlVars, fsVars, callVars, traceVars, stopVars, finishing,
                 isWindows, fnVars>>

\* ------------------------------------ worker: enhance_with_opencv, 150-181
\* Lines 153-154: the first test of the flag.
opencv_stop ==
  /\ pc = "cv_stop1"
  /\ IF stop_requested
       THEN /\ pc' = "c_stop2"
            /\ cvResult' = "fail"
       ELSE /\ pc' = "cv_import"
            /\ UNCHANGED cvResult
  /\ UNCHANGED <<procVars, uiVars, jobVars, dlVars, fsVars, eiResult, cause,
                 traceVars, stopVars, finishing, isWindows, fnVars>>

\* Line 155: import cv2; ImportError leads to the handler at line 174.
opencv_import ==
  /\ pc = "cv_import"
  /\ pc' = IF cvInstalled THEN "cv_read" ELSE "cv_pip"
  /\ UNCHANGED <<procVars, uiVars, jobVars, dlVars, fsVars, callVars,
                 traceVars, stopVars, finishing, isWindows, fnVars>>

\* Lines 174-177: pip install inside the ImportError handler.  When it
\* succeeds the function calls itself; when check_call raises, the error
\* is raised out of enhance_with_opencv (the handler at line 178 does not
\* cover the handler at line 174) and reaches process().
opencv_install ==
  /\ pc = "cv_pip"
  /\ \E ok \in BOOLEAN :
       /\ cvInstalled' = ok
       /\ pc' = IF ok THEN "cv_stop1" ELSE "p_except"
       /\ cvResult' = IF ok THEN cvResult ELSE "raised"
  /\ UNCHANGED <<procVars, uiVars, jobVars, dlVars, outDirExists, outFile,
                 eiResult, cause, traceVars, stopVars, finishing, isWindows,
                 fnVars>>

\* Lines 157-163: imread and resize; an unreadable image returns False.
opencv_read ==
  /\ pc = "cv_read"
  /\ \E readable \in BOOLEAN :
       /\ pc' = IF readable THEN "cv_stop2" ELSE "c_stop2"
       /\ cvResult' = IF readable THEN cvResult ELSE "fail"
  /\ UNCHANGED <<procVars, uiVars, jobVars, dlVars, fsVars, eiResult, cause,
                 traceVars, stopVars, finishing, isWindows, fnVars>>

\* Lines 165-166: the second test of the flag, before the write.
opencv_stop_before_write ==
  /\ pc = "cv_stop2"
  /\ IF stop_requested
       THEN /\ pc' = "c_stop2"
            /\ cvResult' = "fail"
       ELSE /\ pc' = "cv_write"
            /\ UNCHANGED cvResult
  /\ UNCHANGED <<procVars, uiVars, jobVars, dlVars, fsVars, eiResult, cause,
                 traceVars, stopVars, finishing, isWindows, fnVars>>

\* Lines 168-173: makedirs and imwrite, then return True; an exception is
\* caught at line 178 and gives False.
opencv_write ==
  /\ pc = "cv_write"
  /\ \E ok \in BOOLEAN :
       /\ outFile' = IF ok THEN "complete" ELSE outFile
       /\ outDirExists' = IF ok THEN TRUE ELSE outDirExists
       /\ cvResult' = IF ok THEN "ok" ELSE "fail"
  /\ pc' = "c_stop2"
  /\ UNCHANGED <<procVars, uiVars, jobVars, dlVars, cvInstalled, eiResult,
                 cause, traceVars, stopVars, finishing, isWindows, fnVars>>

\* ------------------------------------------------------------ specification
Next ==
  \/ ProcEmitLine
  \/ ProcWrite
  \/ ProcExit
  \/ threaded_start
  \/ stop_process_set
  \/ stop_process_terminate
  \/ process_begin
  \/ process_makedirs
  \/ folder_list
  \/ folder_loop
  \/ caller_check_fallback
  \/ caller_check_report
  \/ show_results
  \/ process_final
  \/ process_success
  \/ process_stopped
  \/ process_except
  \/ reset_ui_start
  \/ reset_ui_rest
  \/ enhance_image_platform
  \/ download_realesrgan_exists
  \/ download_open
  \/ download_loop
  \/ download_read
  \/ download_realesrgan_post
  \/ download_realesrgan_extract
  \/ download_realesrgan_remove
  \/ enhance_image_stop
  \/ enhance_image_walk
  \/ enhance_image_makedirs
  \/ enhance_image_getsize
  \/ enhance_image_popen
  \/ enhance_image_assign
  \/ enhance_image_loop
  \/ enhance_image_terminate
  \/ enhance_image_readline
  \/ enhance_image_poll
  \/ enhance_image_returncode
  \/ enhance_image_success
  \/ enhance_image_failure
  \/ enhance_image_finally
  \/ opencv_stop
  \/ opencv_import
  \/ opencv_install
  \/ opencv_read
  \/ opencv_stop_before_write
  \/ opencv_write

Spec == Init /\ [][Next]_vars

\* The steps of the worker thread that runs process(), up to line 284.
WorkerStep ==
  \/ process_begin
  \/ process_makedirs
  \/ folder_list
  \/ folder_loop
  \/ caller_check_fallback
  \/ caller_check_report
  \/ show_results
  \/ process_final
  \/ process_success
  \/ process_stopped
  \/ process_except
  \/ reset_ui_start
  \/ enhance_image_platform
  \/ download_realesrgan_exists
  \/ download_open
  \/ download_loop
  \/ download_read
  \/ download_realesrgan_post
  \/ download_realesrgan_extract
  \/ download_realesrgan_remove
  \/ enhance_image_stop
  \/ enhance_image_walk
  \/ enhance_image_makedirs
  \/ enhance_image_getsize
  \/ enhance_image_popen
  \/ enhance_image_assign
  \/ enhance_image_loop
  \/ enhance_image_terminate
  \/ enhance_image_readline
  \/ enhance_image_poll
  \/ enhance_image_returncode
  \/ enhance_image_success
  \/ enhance_image_failure
  \/ enhance_image_finally
  \/ opencv_stop
  \/ opencv_import
  \/ opencv_install
  \/ opencv_read
  \/ opencv_stop_before_write
  \/ opencv_write

\* The scheduling the threads get: a worker thread that can take a step
\* again and again does take it (its calls into Tk are served whenever
\* the main thread is back in its event loop), a worker inside reset_ui
\* likewise, and the main thread finishes a handler it has begun.
\* Nothing is assumed of the user or of the executable: it may never
\* print and never exit by itself.
FairSpec ==
  /\ Spec
  /\ SF_vars(WorkerStep)
  /\ SF_vars(reset_ui_rest)
  /\ WF_vars(stop_process_terminate)

TypeOK ==
  /\ stop_requested \in BOOLEAN
  /\ current_process \in {"None", "proc"}
  /\ procState \in {"none", "running", "exited"}
  /\ returncode \in {0, 1}
  /\ linesPending \in 0..MaxLines
  /\ finishing \in 0..MaxWorkers
  /\ uiPc \in {"idle", "stop_terminate"}
  /\ idx \in 1..(MaxFiles + 1)
  /\ numFiles \in 0..MaxFiles
  /\ chunksRead \in 0..MaxChunks
  /\ runnerInvoked \subseteq Files
  /\ launched \in BOOLEAN
  /\ fallbackInvoked \in BOOLEAN
  /\ reported \in BOOLEAN
  /\ outFile \in {"absent", "partial", "complete"}
  /\ pc # "idle" => (stop_requested <=> stopPc # "none")

\* ------------------------------------------- file names, paths and sizes
\* A string is a sequence of one-character strings.  The path separator.
Sep == "/"

\* input_entry.get() in batch mode, its directory part in single-file mode.
InDir == <<"i", "n">>

\* output_entry.get().
OutDir == <<"o", "u", "t">>

\* The literal "enhanced_" of lines 216 and 355.
Prefix == <<"e", "n", "h", "a", "n", "c", "e", "d", "_">>

\* The file names an input directory may hold.
FileNames ==
  { <<"a", ".", "j", "p", "g">>,
    <<"b", ".", "p", "n", "g">>,
    <<"c", ".", "t", "x", "t">>,
    <<"d", ".", "J", "p", "e", "g">>,
    <<"e", ".", "b", "m", "p">>,
    <<"f", ".", "T", "I", "F", "F">>,
    <<"g", ".", "p", "n", "g", ".", "t", "x", "t">>,
    <<"h">>,
    <<"p", "q", ".", "j", "p", "g">> }

\* What os.listdir may return: distinct names in any order.
Listings ==
  { l \in UNION { [1..n -> FileNames] : n \in 0..MaxListing } :
      \A i, j \in DOMAIN l : l[i] = l[j] => i = j }

\* The two values of scale_var (lines 473-479).
Scales == {2, 4}

\* str.lower() on one character.
Lower(c) ==
  CASE c = "B" -> "b" [] c = "E" -> "e" [] c = "F" -> "f" [] c = "G" -> "g"
    [] c = "I" -> "i" [] c = "J" -> "j" [] c = "M" -> "m" [] c = "N" -> "n"
    [] c = "P" -> "p" [] c = "T" -> "t" [] OTHER -> c

\* str.lower().
LowerStr(s) == [i \in 1..Len(s) |-> Lower(s[i])]

\* str.rfind(c) + 1: the last position of c in s, 0 when there is none.
LastIndexOf(s, c) ==
  IF \E i \in 1..Len(s) : s[i] = c
    THEN CHOOSE i \in 1..Len(s) :
           s[i] = c /\ \A j \in (i + 1)..Len(s) : s[j] # c
    ELSE 0

\* os.path.splitext(p)[1]: from the last dot of the last component, when
\* something other than dots precedes that dot in the component.
SplitExt(p) ==
  LET sepIdx == LastIndexOf(p, Sep)
      dotIdx == LastIndexOf(p, ".")
  IN IF dotIdx > sepIdx /\ \E k \in (sepIdx + 1)..(dotIdx - 1) : p[k] # "."
       THEN SubSeq(p, dotIdx, Len(p))
       ELSE <<>>

\* os.path.basename(p).
Basename(p) == SubSeq(p, LastIndexOf(p, Sep) + 1, Len(p))

\* os.path.join(d, name) for a relative name.
Join(d, name) == d \o <<Sep>> \o name

\* str.endswith(suffix).
EndsWith(s, suffix) ==
  /\ Len(suffix) <= Len(s)
  /\ SubSeq(s, Len(s) - Len(suffix) + 1, Len(s)) = suffix

\* Lines 101-103: the extension of the input is appended to the output
\* path unless the lowered output path ends with it.
NormalizedOutput(inp, outp) ==
  LET ext == SplitExt(inp)
  IN IF ~EndsWith(LowerStr(outp), ext) THEN outp \o ext ELSE outp

\* Line 202.
supported_extensions ==
  { <<".", "j", "p", "g">>, <<".", "j", "p", "e", "g">>,
    <<".", "p", "n", "g">>, <<".", "b", "m", "p">>,
    <<".", "t", "i", "f", "f">> }

\* Line 204 without .lower(): the extension is compared as it is spelled.
IsSupported_case_sensitive(f) == SplitExt(f) \in supported_extensions

\* Line 204: the condition of the list comprehension.
IsSupported(f) == LowerStr(SplitExt(f)) \in supported_extensions

\* Lines 161-162 with the job's scale as the factor.
FallbackSize_by_scale(size) == <<size[1] * scale, size[2] * scale>>

\* Lines 161-162: both dimensions times four.
FallbackSize(size) == <<size[1] * 4, size[2] * 4>>

\* process(), lines 342-355: the entries are read; batch mode goes to
\* enhance_folder, single-file mode handles the one file entered.
process_paths ==
  /\ fnPc = "start"
  /\ IF fnBatch
       THEN /\ fnPc' = "list"
            /\ UNCHANGED files
       ELSE /\ fnPc' = "loop"
            /\ files' = dirListing
  /\ UNCHANGED <<runVars, fnBatch, dirListing, fileIdx, scale, imgSize,
                 input_path, output_path, cmdOutput, cmdScale, cvWritten,
                 cvSize, srRead, enhanced_file>>

\* enhance_folder, lines 202-208: the supported files of the listing.
enhance_folder_files ==
  /\ fnPc = "list"
  /\ files' = SelectSeq(dirListing, IsSupported)
  /\ fnPc' = IF files' = <<>> THEN "done" ELSE "loop"
  /\ UNCHANGED <<runVars, fnBatch, dirListing, fileIdx, scale, imgSize,
                 input_path, output_path, cmdOutput, cmdScale, cvWritten,
                 cvSize, srRead, enhanced_file>>

\* enhance_folder, lines 212-216, and process(), line 355: the next file
\* and the two paths handed to the three components.
enhance_folder_paths ==
  /\ fnPc = "loop"
  /\ IF fileIdx = Len(files)
       THEN /\ fnPc' = "done"
            /\ UNCHANGED <<fileIdx, input_path, output_path, cmdOutput,
                           cvWritten, srRead>>
       ELSE LET file == files[fileIdx + 1]
                inp  == Join(InDir, file)
            IN /\ fileIdx' = fileIdx + 1
               /\ input_path' = inp
               /\ output_path' =
                    Join(OutDir,
                         Prefix \o (IF fnBatch THEN file ELSE Basename(inp)))
               /\ cmdOutput' = <<>>
               /\ cvWritten' = <<>>
               /\ srRead' = <<>>
               /\ fnPc' = "runner"
  /\ UNCHANGED <<runVars, fnBatch, dirListing, files, scale, imgSize,
                 cmdScale, cvSize, enhanced_file>>

\* enhance_image, lines 101-106: the command line; the executable then
\* succeeds or fails.
enhance_image_cmd ==
  /\ fnPc = "runner"
  /\ cmdOutput' = NormalizedOutput(input_path, output_path)
  /\ cmdScale' = scale
  /\ \E ok \in BOOLEAN : fnPc' = IF ok THEN "report" ELSE "fallback"
  /\ UNCHANGED <<runVars, fnBatch, dirListing, files, fileIdx, scale,
                 imgSize, input_path, output_path, cvWritten, cvSize,
                 srRead, enhanced_file>>

\* enhance_with_opencv, lines 157-169: an unreadable image returns False;
\* a readable one is resized and written to output_path.
enhance_with_opencv_resize ==
  /\ fnPc = "fallback"
  /\ \E readable \in BOOLEAN :
       IF readable
         THEN /\ cvSize' = FallbackSize(imgSize)
              /\ cvWritten' = output_path
         ELSE UNCHANGED <<cvSize, cvWritten>>
  /\ fnPc' = "report"
  /\ UNCHANGED <<runVars, fnBatch, dirListing, files, fileIdx, scale,
                 imgSize, input_path, output_path, cmdOutput, cmdScale,
                 srRead, enhanced_file>>

\* show_results, lines 185-190: the two images are opened.
show_results_open ==
  /\ fnPc = "report"
  /\ srRead' = output_path
  /\ fnPc' = "loop"
  /\ UNCHANGED <<runVars, fnBatch, dirListing, files, fileIdx, scale,
                 imgSize, input_path, output_path, cmdOutput, cmdScale,
                 cvWritten, cvSize, enhanced_file>>

\* see_result, lines 301-327, with the entries of the job still filled
\* in: in batch mode the output folder is opened; in single-file mode the
\* path is rebuilt from the first character of the input's base name and
\* the input's extension.
see_result ==
  /\ fnPc = "done"
  /\ enhanced_file' =
       IF fnBatch
         THEN OutDir
         ELSE LET inp       == Join(InDir, dirListing[1])
                  base_name == <<Basename(inp)[1]>>
                  ext       == SplitExt(inp)
              IN Join(OutDir, Prefix \o base_name \o ext)
  /\ fnPc' = "seen"
  /\ UNCHANGED <<runVars, fnBatch, dirListing, files, fileIdx, scale,
                 imgSize, input_path, output_path, cmdOutput, cmdScale,
                 cvWritten, cvSize, srRead>>

\* One job on a Windows host with everything installed: the mode, the
\* listing (one name in single-file mode), the scale and the image size
\* are the inputs.
DataInit ==
  /\ InitRun
  /\ isWindows
  /\ dirState = "full"
  /\ cvInstalled
  /\ fnPc = "start"
  /\ fnBatch \in BOOLEAN
  /\ dirListing \in Listings
  /\ ~fnBatch => Len(dirListing) = 1
  /\ scale \in Scales
  /\ imgSize \in (1..MaxDim) \X (1..MaxDim)
  /\ files = <<>>
  /\ fileIdx = 0
  /\ input_path = <<>>
  /\ output_path = <<>>
  /\ cmdOutput = <<>>
  /\ cmdScale = 4
  /\ cvWritten = <<>>
  /\ cvSize = <<0, 0>>
  /\ srRead = <<>>
  /\ enhanced_file = <<>>

DataNext ==
  \/ process_paths
  \/ enhance_folder_files
  \/ enhance_folder_paths
  \/ enhance_image_cmd
  \/ enhance_with_opencv_resize
  \/ show_results_open
  \/ see_result

DataSpec == DataInit /\ [][DataNext]_vars

\* --------------------------------------------------- positions of the worker
\* process() and enhance_folder before the first file.
PreLoopPcs == {"p_begin", "p_mkdir", "f_list"}

\* enhance_image from its entry up to and including the Popen call.
PreLaunchPcs ==
  {"ei_platform", "dl_exists", "dl_open", "dl_loop", "dl_read", "dl_post",
   "dl_extract", "dl_remove", "ei_stop", "ei_walk", "ei_mkdir",
   "ei_getsize", "ei_popen"}

\* enhance_image from the launch up to and including its last read of
\* stop_requested (line 134, or line 139 on the failure branch).
PostLaunchPcs ==
  {"ei_assign", "ei_loop", "ei_term", "ei_readline", "ei_poll", "ei_rc",
   "ei_stop2", "ei_stderr"}

\* enhance_with_opencv.
FallbackPcs ==
  {"cv_stop1", "cv_import", "cv_pip", "cv_read", "cv_stop2", "cv_write"}

\* The caller after its test of the flag at line 220/357.
AfterDecisionPcs == FallbackPcs \cup {"c_stop2", "sr"}

\* Every position at which the worker is handling the file numbered idx.
FilePcs ==
  PreLaunchPcs \cup PostLaunchPcs \cup {"ei_finally", "c_stop1"}
    \cup AfterDecisionPcs

\* The external process is running, or the fallback is executing.
InFlightPcs ==
  {"ei_assign", "ei_loop", "ei_readline", "ei_poll"} \cup FallbackPcs

\* Worker threads that have not left process(): the one whose position is
\* pc, and those still inside reset_ui.
Workers == (IF pc = "idle" THEN 0 ELSE 1) + finishing

\* The stop action set the flag before the caller's test at line 220/357
\* for the file in hand.
StopBeforeFallbackTest ==
  /\ stopPc # "none"
  /\ ~(stopIdx = idx /\ stopPc \in AfterDecisionPcs)

\* ---------------------------------------------------------------- claims
\* C1 as stated: for the file in hand, once the caller is past its test
\* of the flag, the Fallback has been invoked if and only if enhance_image
\* returned failure for a reason other than cancellation.
C1_FallbackIffNonCancelFailure ==
  pc \in AfterDecisionPcs =>
    (fallbackInvoked <=> (~eiResult /\ cause # "cancel"))

\* C1 amended: the Fallback is invoked if and only if enhance_image
\* returned failure and the stop action had not set the flag by the time
\* the caller tests it after the return (line 220/357); and whenever it is
\* invoked, the failure had a cause other than cancellation.
C1_FallbackIffFailureAndNoStopYet ==
  pc \in AfterDecisionPcs =>
    /\ fallbackInvoked <=> (~eiResult /\ ~StopBeforeFallbackTest)
    /\ fallbackInvoked =>
         cause \in {"platform", "provision", "noexe", "exit", "exception"}

\* C1 witness: the Fallback runs after a non-zero exit of the executable.
C1_Witness ==
  pc = "cv_stop1" /\ fallbackInvoked /\ cause = "exit" /\ launched

\* C2 as stated: the executable is never started by a Popen call made
\* when stop_requested was already true.
C2_NoLaunchAfterStop == ~launchedUnderStop

\* C3 as stated: when the flag is set after the launch and before
\* enhance_image returns, the process has been terminated and the result
\* is failure; and a success means exit code 0 with no cancellation
\* requested before the return.
C3_CancelAfterLaunchNeverSucceeds ==
  (pc \in {"c_stop1"} \cup AfterDecisionPcs /\ launched) =>
    /\ (stopIdx = idx /\ stopPc \in PostLaunchPcs \cup {"ei_finally"}) =>
         (~eiResult /\ procState = "exited")
    /\ eiResult =>
         (returncode = 0 /\ procState = "exited"
          /\ (stopPc = "none" \/ stopPc \in AfterDecisionPcs))

\* C3 amended: when the flag is set after the launch and no later than
\* enhance_image's last read of it (line 134, line 139 on the failure
\* branch), the process has exited or been terminated and the result is
\* failure; a success means exit code 0 and a flag that was still false
\* at the read of line 134.
C3_CancelBeforeLastReadFails ==
  (pc \in {"c_stop1"} \cup AfterDecisionPcs /\ launched) =>
    /\ (stopIdx = idx /\ stopPc \in PostLaunchPcs) =>
         (~eiResult /\ procState = "exited")
    /\ eiResult =>
         (returncode = 0 /\ procState = "exited"
          /\ (stopPc = "none"
              \/ stopPc \in {"ei_finally"} \cup AfterDecisionPcs))

\* C3 witness: the flag was set while the worker was blocked in readline;
\* enhance_image has returned failure and the process is gone.
C3_Witness ==
  /\ pc = "c_stop1"
  /\ launched
  /\ stopPc = "ei_readline"
  /\ ~eiResult
  /\ procState = "exited"

\* C4 as stated: the flag goes from true to false only by threaded_start
\* beginning a new run, and only when no worker is still running.
C4_FlagClearedOnlyByNewRun ==
  [][(stop_requested /\ ~stop_requested') =>
       (Workers = 0 /\ pc' = "p_begin")]_vars

\* C5 as stated: at most one worker thread is inside process() at any time.
C5_AtMostOneWorker == Workers <= 1

\* C6: the handle is set only while the worker is inside enhance_image
\* between the assignment of line 115 and the finally clause, for a
\* process that was launched; everywhere else, in particular after every
\* return of enhance_image, it is None.
C6_HandleOnlyDuringExternalCall ==
  current_process # "None" =>
    (pc \in (PostLaunchPcs \ {"ei_assign"}) \cup {"ei_finally"} /\ launched)

\* C6 witness: enhance_image has returned after a cancellation that
\* terminated a launched process, and the handle is None.
C6_Witness ==
  /\ pc = "c_stop1"
  /\ launched
  /\ cause = "cancel"
  /\ current_process = "None"

\* C7 as stated: a single-file run in which enhance_image and the Fallback
\* both failed and no stop was requested ends with an error message box
\* and without the success status.
C7_SingleFailureShowsError ==
  (pc = "p_reset1" /\ ~batch /\ fallbackInvoked /\ cvResult = "fail"
   /\ stopPc = "none") =>
    (dialog = "error" /\ status # "success")

\* C8 as stated: a batch run in which no stop was requested and the
\* Fallback was called for a failed file ends only after enhance_image
\* has been called for every file of the listing.
C8_BatchContinuesAfterFailure ==
  (pc = "p_reset1" /\ batch /\ fallbackInvoked /\ stopPc = "none") =>
    runnerInvoked = 1..numFiles

\* C9: in a batch run, once the flag has been set while file k was in
\* hand (or at the loop head before file k), the worker is never at a
\* step of a later file, and enhance_image is called for no later file
\* (nor for k itself when the flag was set at the loop head or before).
C9_NoFileAfterCancel ==
  (batch /\ stopPc # "none") =>
    /\ pc \in FilePcs => (idx = stopIdx /\ stopPc \in FilePcs)
    /\ \A j \in runnerInvoked : j <= stopIdx
    /\ stopPc \in PreLoopPcs \cup {"f_loop"} => stopIdx \notin runnerInvoked

\* C9 witness: a batch of two files was stopped while the executable ran
\* for the first one, and the run has ended with the second never begun.
C9_Witness ==
  /\ pc = "p_reset1"
  /\ batch
  /\ numFiles = 2
  /\ stopPc \in PostLaunchPcs
  /\ stopIdx = 1
  /\ runnerInvoked = {1}

\* C10 as stated: when the flag was set while a file was in flight, that
\* file's output is not a partial file once the run has ended.
C10_NoPartialOutputAfterCancel ==
  (pc = "p_reset1" /\ stopPc \in InFlightPcs) => outFile # "partial"

\* C11: whenever the directory "realesrgan" exists, a call of
\* download_realesrgan goes straight to its return of success (the caller
\* continues at line 83): nothing is downloaded or extracted, and the
\* directory, the archive file and the chunk count are what they were;
\* this holds for every call, however many are made.
C11_ProvisioningIdempotent ==
  [][(pc = "dl_exists" /\ dirState # "absent" /\ pc' # pc) =>
       (pc' = "ei_stop" /\ UNCHANGED dlVars)]_vars

\* C11 witness: the second call of one batch run has returned success on
\* the partly filled directory that the first call had found as well.
C11_Witness ==
  /\ pc = "ei_stop"
  /\ idx = 2
  /\ runnerInvoked = {1, 2}
  /\ dirState = "partial"
  /\ zipState = "absent"

\* C12 as stated: when the flag was set while the archive was being
\* downloaded (between two tests of line 38, or during the read of line
\* 42), provisioning has returned failure with no archive file left and
\* no directory "realesrgan" created.
C12_CancelledDownloadLeavesNothing ==
  (pc = "c_stop1" /\ stopIdx = idx /\ stopPc \in {"dl_loop", "dl_read"}) =>
    (~eiResult /\ zipState = "absent" /\ dirState = "absent")

\* The names of FileNames that carry one of the five supported extensions
\* in some letter case, written out one by one.
SupportedNames ==
  { <<"a", ".", "j", "p", "g">>,
    <<"b", ".", "p", "n", "g">>,
    <<"d", ".", "J", "p", "e", "g">>,
    <<"e", ".", "b", "m", "p">>,
    <<"f", ".", "T", "I", "F", "F">>,
    <<"p", "q", ".", "j", "p", "g">> }

\* C13 as stated: once a file with a supported extension, in any letter
\* case, has gone through Runner, Fallback (if called) and Reporter, the
\* path after "-o" on the command line, the path the Fallback wrote and
\* the path the Reporter opened are all <output_dir>/enhanced_<file name>,
\* in single-file and in batch mode.
C13_OnePathForRunnerFallbackReporter ==
  (fnPc = "loop" /\ fileIdx >= 1 /\ files[fileIdx] \in SupportedNames) =>
    LET expected == OutDir \o <<Sep>> \o Prefix \o files[fileIdx]
    IN /\ cmdOutput = expected
       /\ srRead = expected
       /\ cvWritten \in {<<>>, expected}

\* C14: in batch mode the list of files to process holds exactly the
\* entries of the listing whose extension, letter case aside, is .jpg,
\* .jpeg, .png, .bmp or .tiff: each of them is in the list, and nothing
\* with another extension or with none is.
C14_BatchSelectsSupported ==
  (fnBatch /\ fnPc \notin {"start", "list"}) =>
    /\ \A i \in 1..Len(dirListing) :
         dirListing[i] \in SupportedNames <=>
           \E j \in 1..Len(files) : files[j] = dirListing[i]
    /\ \A j \in 1..Len(files) :
         \E i \in 1..Len(dirListing) : dirListing[i] = files[j]

\* C14 witness: the listing c.txt, f.TIFF, a.jpg has been reduced to
\* f.TIFF, a.jpg, and both have been processed.
C14_Witness ==
  /\ fnBatch
  /\ fnPc = "done"
  /\ dirListing = << <<"c", ".", "t", "x", "t">>,
                     <<"f", ".", "T", "I", "F", "F">>,
                     <<"a", ".", "j", "p", "g">> >>
  /\ files = << <<"f", ".", "T", "I", "F", "F">>,
                <<"a", ".", "j", "p", "g">> >>
  /\ fileIdx = 2

\* C15: whenever the Fallback has written an output for an input of
\* W x H pixels, the image it wrote is 4W x 4H, whether the job's scale
\* is 2 or 4.
C15_FallbackWritesFourTimes ==
  cvWritten # <<>> =>
    (cvSize[1] = 4 * imgSize[1] /\ cvSize[2] = 4 * imgSize[2])

\* C15 witness: a job of scale 2 (the Runner was given -s 2) whose
\* Fallback wrote 8 x 4 pixels for an input of 2 x 1.
C15_Witness ==
  /\ fnPc = "report"
  /\ cvWritten = output_path
  /\ scale = 2
  /\ cmdScale = 2
  /\ imgSize = <<2, 1>>
  /\ cvSize = <<8, 4>>

C17_CancelledIsTerminal ==
  (pc = "p_reset1" /\ stopPc \notin {"none", "p_reset1"}) =>
    /\ dialog = "none"
    /\ status = "stopped"
    /\ stopPc \in PreLaunchPcs \cup PostLaunchPcs \cup {"ei_finally", "c_stop1"}
         => ~fallbackInvoked

\* C18 as stated: neither enhance_image (with download_realesrgan inside
\* it) nor enhance_with_opencv is ever left by an exception: every error
\* becomes a returned failure (show_results has no failing step that is
\* not caught).
C18_NoErrorEscapes == cause # "raised" /\ cvResult # "raised"

\* C19 as stated: when a batch run has found no supported file in the
\* input directory, then from the return of enhance_folder to the end of
\* the run the output directory has not been created, enhance_image,
\* the Fallback and the Reporter have not been called, and no external
\* process has been launched.
C19_EmptyBatchCreatesNothing ==
  (batch /\ numFiles = 0
   /\ pc \in {"p_final", "p_success", "p_stopped", "p_reset1"}) =>
    /\ ~outDirExists
    /\ runnerInvoked = {}
    /\ ~launched
    /\ ~fallbackInvoked
    /\ ~reported
    /\ procState # "running"

\* C20, first part: whenever the flag is set while a worker is inside
\* process(), that worker eventually has left it, with the handle None.
C20_CancelledWorkerEnds ==
  (stop_requested /\ pc # "idle") ~> (pc = "idle" /\ current_process = "None")

\* C20 as stated: whenever the flag is set while a worker is inside
\* process(), eventually the worker has left it, the handle is None and
\* the window shows Start and does not show Stop.
C20_CancelledRunReturnsToReady ==
  (stop_requested /\ pc # "idle") ~>
    (pc = "idle" /\ current_process = "None" /\ startVisible /\ ~stopVisible)

\* C21 as stated: after a provisioning attempt that returned failure (an
\* error of the download or of the extraction, or a cancellation seen
\* during or right after the download), the directory "realesrgan" does
\* not exist, so that the next call downloads and extracts again.
C21_FailedProvisioningLeavesNoDirectory ==
  (pc = "c_stop1"
   /\ (cause = "provision"
       \/ (cause = "cancel" /\ stopIdx = idx
           /\ stopPc \in {"dl_open", "dl_loop", "dl_read", "dl_post"}))) =>
    dirState = "absent"

\* C22 as stated: after a single-file run on the file F into the folder
\* D, the path see_result looks up and opens is D/enhanced_<base name of
\* F>, the path the run gave to the Fallback and the Reporter, whatever
\* the name F.
C22_SeeResultOpensWrittenPath ==
  (fnPc = "seen" /\ ~fnBatch) =>
    /\ enhanced_file = OutDir \o <<Sep>> \o Prefix \o dirListing[1]
    /\ enhanced_file = output_path

====
